---------------------------- MODULE Spec2Model ----------------------------
(***************************************************************************)
(* Model of av-scenechange: the lookahead sliding-window driver            *)
(* (src/src/lib.rs, detect_scene_changes), the pull-style VapourSynth      *)
(* adapter (src/src/vapoursynth.rs) it runs over, and the push-style       *)
(* FFmpeg adapter (src/src/ffmpeg.rs, FfmpegDecoder::receive_frame).       *)
(*                                                                         *)
(* Spec        : one detection pass of the driver over the pull adapter.   *)
(* SpecFfmpeg  : the push adapter driven by an arbitrary caller, one       *)
(*               action per iteration of the loop in receive_frame.        *)
(***************************************************************************)
EXTENDS Naturals, Integers, Sequences, FiniteSets, TLC

\* ------------------------------------------------------------------ bounds
MaxFrames == 6        \* frames the node can hold
MaxLookahead == 3     \* largest lookahead_distance tried
MaxPackets == 4       \* packets in the packet source
MaxCalls == 7         \* receive_frame calls made by the caller of the push adapter
MaxFaults == 1        \* decode faults the native decoder reports
MaxStride == 3        \* largest requested stride, in pixels
MaxPlaneHeight == 3   \* largest plane height, native or requested
MaxDim == 130         \* largest native width or height given to the alignment

VARIABLES
    \* ---- inputs of one pass
    lookahead_distance,   \* opts.lookahead_distance
    num_frames,           \* frames the VapourSynth node can deliver
    stride_ok,            \* native layout of the node's frames fits the request
    has_progress,         \* progress_callback is Some
    \* ---- VapoursynthDecoder
    frame_idx,
    \* ---- detect_scene_changes locals
    pc,
    prime_i,
    frame_copy_needed,
    frame_queue,
    frame_copies,
    keyframes,
    frameno,
    result,
    \* ---- what the collaborators observed
    calls,                \* analyze_next_frame calls, in order
    progress,             \* progress_fn calls, in order
    decoded,              \* frames successfully retrieved from the decoder
    stride_queries,       \* stride_matches calls made by the driver
    held_views,           \* views of x1 at function scope, alive until return
    overwritten,          \* frames whose buffer a later decode has reused
    copy_write_lost,      \* a write through the transmuted &mut did not land
    probes,               \* the retrieval calls made: cursor before, answer
    \* ---- FfmpegDecoder and its native collaborators
    packet_iter,          \* stream indices of the packets still to be read
    receiving_frames,
    receiving_eof_frames,
    nat_buffered,         \* frames inside the native decoder, not yet output
    nat_ready,            \* frames the native decoder will output on a pull
    nat_eof,              \* send_eof has reached the native decoder
    ffpc,                 \* "out": between calls, "loop": at the top of the loop
    nat_faults,           \* decode faults the native decoder has reported
    ffret,                \* value returned by the last completed call
    ff_calls,             \* receive_frame calls started
    ff_false_count,       \* calls that returned false
    ff_ended,             \* a call returned false with the native decoder empty
    packet_source,        \* the packets of the source as they were at construction
    packet_polls,         \* packet_iter.next() calls made
    sent,                 \* positions in packet_source of the packets sent
    eof_sends,            \* send_eof calls made
    pull_failed,          \* a pull has failed since the last send_packet
    \* ---- one call of VapoursynthDecoder::get_frame_ref
    gfr_strict,           \* strict
    gfr_alloc,            \* "Some" or "None": the alloc argument
    gfr_frame_stride,     \* frame.stride(0), in bytes
    gfr_frame_height,     \* frame.height(0)
    gfr_stride,           \* stride, in pixels
    gfr_alloc_height,     \* alloc_height
    gfr_size_of,          \* size_of::<T>()
    gfr_pc,               \* "call", "returned" or "panicked"
    gfr_view,             \* what the call returned
    \* ---- the target dimensions computed at the start of a pass
    analysis_speed,       \* opts.analysis_speed
    video_height,         \* video_details.height
    video_width,          \* video_details.width
    alloc_height,
    stride,
    target_pc,            \* "start" or "computed"
    \* ---- a caller of the VapoursynthDecoder other than the driver
    vs_ret,               \* the answer of the last call on the adapter
    vs_x                  \* the frame in the buffer given to receive_frame

driver_vars == <<lookahead_distance, num_frames, stride_ok, has_progress,
                 frame_idx, pc, prime_i, frame_copy_needed, frame_queue,
                 frame_copies, keyframes, frameno, result, calls, progress,
                 decoded, stride_queries, held_views, overwritten,
                 copy_write_lost, probes>>

ff_vars == <<packet_iter, receiving_frames, receiving_eof_frames,
             nat_buffered, nat_ready, nat_eof, nat_faults, ffpc, ffret,
             ff_calls, ff_false_count, ff_ended, packet_source,
             packet_polls, sent, eof_sends, pull_failed>>

gfr_vars == <<gfr_strict, gfr_alloc, gfr_frame_stride, gfr_frame_height,
              gfr_stride, gfr_alloc_height, gfr_size_of, gfr_pc, gfr_view>>

target_vars == <<analysis_speed, video_height, video_width, alloc_height,
                 stride, target_pc>>

vs_vars == <<vs_ret, vs_x>>

vars == <<driver_vars, ff_vars, gfr_vars, target_vars, vs_vars>>

\* ------------------------------------------------------------- sequences
Last(s) == s[Len(s)]

RemoveFirst(s) == SubSeq(s, 2, Len(s))

Pop(s) == SubSeq(s, 1, Len(s) - 1)

\* ------------------------------------------------ VapoursynthDecoder
\* node.get_frame(n): Ok for the frames the node holds, Err past the end.
NodeGetFrame(n) == [ok |-> n < num_frames, frame |-> n]

\* (mutant) a failed fetch leaves the cursor where it was
VsReceiveFrameInit_retry(idx) ==
    LET f == NodeGetFrame(idx)
    IN  [ok |-> f.ok, frame |-> f.frame,
         frame_idx |-> IF f.ok THEN idx + 1 ELSE idx]

\* receive_frame_init: fetch at the cursor, advance the cursor, frame.ok()
VsReceiveFrameInit(idx) ==
    LET f == NodeGetFrame(idx)
    IN  [ok |-> f.ok, frame |-> f.frame, frame_idx |-> idx + 1]

\* receive_frame: fetch at the cursor, advance the cursor, overwrite *x on Ok
VsReceiveFrame(idx, x) ==
    LET f == NodeGetFrame(idx)
    IN  [ok |-> f.ok, frame |-> IF f.ok THEN f.frame ELSE x,
         frame_idx |-> idx + 1]

\* stride_matches: false when the frame at the cursor cannot be fetched,
\* otherwise the comparison of its native stride and height with the request
VsStrideMatches(idx) ==
    IF NodeGetFrame(idx).ok THEN stride_ok ELSE FALSE

\* (mutant) the peek consumes the frame it inspects
VsCursorAfterStrideMatches_consumed(idx) == idx + 1

\* stride_matches reads self.frame_idx and does not assign it
VsCursorAfterStrideMatches(idx) == idx

\* make_copy with alloc = None: a freshly allocated plane holding the pixels
MakeCopy(frame) == [kind |-> "Copy", data |-> frame]

\* get_frame_ref on a frame whose layout fits: a view over backend memory
GetFrameRef(frame) == [kind |-> "Ref", data |-> frame]

\* ------------------------------------------------ detect_scene_changes
\* (mutant) the priming loop stops one frame early
PrimeCount_short(la) == la

\* for i in 0..opts.lookahead_distance + 1
PrimeCount(la) == la + 1

\* (mutant) the first keyframe instead of the last
MostRecentKeyframe_first(kf) == kf[1]

\* *keyframes.last().unwrap()
MostRecentKeyframe(kf) == kf[Len(kf)]

\* (mutant) the index of the frame before the current one is recorded
PushKeyframe_previous(kf, n) == Append(kf, n - 1)

\* keyframes.push(frameno)
PushKeyframe(kf, n) == Append(kf, n)

\* (mutant) the reused slot gets the index of the newest entry
NewLast_same(q) == Last(q)[1]

\* let new_last = frame_queue.last().unwrap().0 + 1
NewLast(q) == Last(q)[1] + 1

\* (mutant) the drain loop does not advance the frame counter
DrainFrameno_stuck(n) == n

\* frameno += 1 at the top of the drain loop
DrainFrameno(n) == n + 1

\* (mutant) the seed keyframe is not counted
ProgressArgs_unseeded(n, kf) == <<n, Len(kf) - 1>>

\* progress_fn(frameno, keyframes.len())
ProgressArgs(n, kf) == <<n, Len(kf)>>

Report(log, n, kf) == IF has_progress THEN Append(log, ProgressArgs(n, kf)) ELSE log

\* the write of make_copy into an existing copy goes through a &mut Plane
\* transmuted from a shared reference (mutable_transmutes): undefined
\* behaviour, so the build decides whether the write lands
TransmutedWriteLands == BOOLEAN

\* make_copy with alloc = Some(transmute(&frame_copies[len - 1].planes[0]))
MakeCopyInto(plane, frame, lands) == IF lands THEN MakeCopy(frame) ELSE plane

\* (mutant) a retrieval that reported the end is tried again
OnExhaustion_retry(phase) == phase

\* where the driver goes when a retrieval reports the end of the stream:
\* the priming returns the result, the sliding loop breaks to the drain loop
OnExhaustion(phase) == IF phase = "slide" THEN "drain" ELSE "done"

\* the log of retrieval calls after one more call
Probe(idx, ok) == Append(probes, [idx |-> idx, ok |-> ok])

\* (mutant) the drain loop stops on a window of two frames
DrainContinues_two(q) == Len(q) > 2

\* while frame_queue.len() != 1
DrainContinues(q) == Len(q) # 1

\* fill_vec: one view per window entry, in window order
FillVec(q) == [i \in 1..Len(q) |-> GetFrameRef(q[i][2])]

\* (mutant) the copy-mode decision is taken again at every call
Window_requery(q, copies) ==
    IF ~VsStrideMatches(frame_idx) THEN copies ELSE FillVec(q)

\* the sequence handed to the engine: frame_copies in copy mode, views otherwise
Window(q, copies) == IF frame_copy_needed THEN copies ELSE FillVec(q)

\* one analyze_next_frame call and what the driver does with its verdict
AnalyzeNextFrame(n, verdict) ==
    /\ calls' = Append(calls, [frameno |-> n,
                               previous_keyframe |-> MostRecentKeyframe(keyframes),
                               window |-> Window(frame_queue, frame_copies),
                               indices |-> [i \in 1..Len(frame_queue) |-> frame_queue[i][1]],
                               frames |-> [i \in 1..Len(frame_queue) |-> frame_queue[i][2]],
                               verdict |-> verdict])
    /\ keyframes' = IF verdict THEN PushKeyframe(keyframes, n) ELSE keyframes

Returned == [returned |-> TRUE, scene_changes |-> keyframes, frame_count |-> frameno]

\* let frame_copy_needed = !dec.stride_matches(stride, alloc_height)
StrideMatchesStep(answer, cursor) ==
    /\ pc = "stride_matches"
    /\ frame_copy_needed' = ~answer
    /\ frame_idx' = cursor
    /\ pc' = "priming"
    /\ stride_queries' = stride_queries + 1
    /\ UNCHANGED <<held_views, overwritten, copy_write_lost, probes>>
    /\ UNCHANGED <<gfr_vars, target_vars, vs_vars>>
    /\ UNCHANGED <<lookahead_distance, num_frames, stride_ok, has_progress,
                   prime_i, frame_queue, frame_copies, keyframes,
                   frameno, result, calls, progress, decoded>>

StrideMatches ==
    /\ StrideMatchesStep(VsStrideMatches(frame_idx),
                         VsCursorAfterStrideMatches(frame_idx))
    /\ UNCHANGED ff_vars

\* one iteration of the priming loop; the last one is followed by
\* frameno += 1 and the progress report for frame 0
PrimingStep(r) ==
    /\ pc = "priming"
    /\ /\ frame_idx' = r.frame_idx
       /\ probes' = Probe(frame_idx, r.ok)
       /\ IF r.ok
          THEN /\ frame_queue' = Append(frame_queue, <<prime_i, r.frame>>)
               /\ frame_copies' = IF frame_copy_needed
                                     THEN Append(frame_copies, MakeCopy(r.frame))
                                     ELSE frame_copies
               /\ decoded' = decoded + 1
               /\ prime_i' = prime_i + 1
               /\ IF prime_i + 1 = PrimeCount(lookahead_distance)
                  THEN /\ frameno' = frameno + 1
                       /\ progress' = Report(progress, frameno + 1, keyframes)
                       /\ pc' = "last_priming"
                  ELSE UNCHANGED <<frameno, progress, pc>>
               /\ UNCHANGED result
          ELSE /\ result' = Returned
               /\ pc' = OnExhaustion("priming")
               /\ UNCHANGED <<frame_queue, frame_copies, decoded, prime_i,
                              frameno, progress>>
    /\ UNCHANGED <<stride_queries, held_views, overwritten, copy_write_lost>>
    /\ UNCHANGED <<gfr_vars, target_vars, vs_vars>>
    /\ UNCHANGED <<lookahead_distance, num_frames, stride_ok, has_progress,
                   frame_copy_needed, keyframes, calls>>

PrimingFrame ==
    /\ PrimingStep(VsReceiveFrameInit(frame_idx))
    /\ UNCHANGED ff_vars

\* the frame with index lookahead_distance + 1
LastPrimingStep(r) ==
    /\ pc = "last_priming"
    /\ /\ frame_idx' = r.frame_idx
       /\ probes' = Probe(frame_idx, r.ok)
       /\ IF r.ok
          THEN /\ frame_queue' = Append(frame_queue,
                                        <<lookahead_distance + 1, r.frame>>)
               /\ frame_copies' = IF frame_copy_needed
                                     THEN Append(frame_copies, MakeCopy(r.frame))
                                     ELSE frame_copies
               /\ decoded' = decoded + 1
               /\ pc' = "first_analysis"
               /\ UNCHANGED result
          ELSE /\ result' = Returned
               /\ pc' = OnExhaustion("last_priming")
               /\ UNCHANGED <<frame_queue, frame_copies, decoded>>
    /\ UNCHANGED <<stride_queries, held_views, overwritten, copy_write_lost>>
    /\ UNCHANGED <<gfr_vars, target_vars, vs_vars>>
    /\ UNCHANGED <<lookahead_distance, num_frames, stride_ok, has_progress,
                   prime_i, frame_copy_needed, keyframes, frameno, calls,
                   progress>>

LastPrimingFrame ==
    /\ LastPrimingStep(VsReceiveFrameInit(frame_idx))
    /\ UNCHANGED ff_vars

\* the analysis call on a full window, then frameno += 1 and the report
\* (after priming, and in each iteration of the sliding loop)
AnalyzeFullWindow ==
    /\ \E verdict \in BOOLEAN : AnalyzeNextFrame(frameno, verdict)
    /\ frameno' = frameno + 1
    /\ progress' = Report(progress, frameno + 1, keyframes')
    /\ pc' = "slide"
    /\ UNCHANGED <<stride_queries, overwritten, copy_write_lost, probes>>
    /\ UNCHANGED <<ff_vars, gfr_vars, target_vars, vs_vars>>
    /\ UNCHANGED <<lookahead_distance, num_frames, stride_ok, has_progress,
                   frame_idx, prime_i, frame_copy_needed, frame_queue,
                   frame_copies, result, decoded>>

\* the first analysis call, on the window the priming built
\* x1 and y1 are declared at function scope here: the views fill_vec made
\* stay alive until the function returns
FirstAnalysis ==
    /\ pc = "first_analysis"
    /\ AnalyzeFullWindow
    /\ held_views' = IF frame_copy_needed THEN held_views
                                           ELSE FillVec(frame_queue)

\* top of the sliding loop: rotate the oldest slot to the back, decode into it
SlideStep(r) ==
    /\ pc = "slide"
    /\ LET first == frame_queue[1]
           rest == RemoveFirst(frame_queue)
           new_last == NewLast(rest)
           q == Append(rest, first)
           c == IF frame_copy_needed
                  THEN Append(RemoveFirst(frame_copies), frame_copies[1])
                  ELSE frame_copies
           len == Len(q)
       IN
       /\ frame_idx' = r.frame_idx
       /\ probes' = Probe(frame_idx, r.ok)
       /\ IF r.ok
          THEN /\ frame_queue' = [q EXCEPT ![len] = <<new_last, r.frame>>]
               /\ overwritten' = overwritten \cup {q[len][2]}
               /\ IF frame_copy_needed
                  THEN \E lands \in TransmutedWriteLands :
                         /\ frame_copies' =
                              [c EXCEPT ![len] = MakeCopyInto(c[len], r.frame, lands)]
                         /\ copy_write_lost' = (copy_write_lost \/ ~lands)
                  ELSE /\ frame_copies' = c
                       /\ UNCHANGED copy_write_lost
               /\ decoded' = decoded + 1
               /\ pc' = "slide_analysis"
          ELSE /\ frame_queue' = Pop(q)
               /\ frame_copies' = IF frame_copy_needed THEN Pop(c) ELSE c
               /\ pc' = OnExhaustion("slide")
               /\ UNCHANGED <<decoded, overwritten, copy_write_lost>>
    /\ UNCHANGED <<stride_queries, held_views>>
    /\ UNCHANGED <<gfr_vars, target_vars, vs_vars>>
    /\ UNCHANGED <<lookahead_distance, num_frames, stride_ok, has_progress,
                   prime_i, frame_copy_needed, keyframes, frameno, result,
                   calls, progress>>

\* the slot decoded into is the oldest one, rotated to the back
SlideDecode ==
    /\ SlideStep(VsReceiveFrame(frame_idx, frame_queue[1][2]))
    /\ UNCHANGED ff_vars

\* the analysis call of a sliding-loop iteration whose decode succeeded
\* x1 and y1 are declared in the loop body: they end with the iteration
SlideAnalysis ==
    /\ pc = "slide_analysis"
    /\ AnalyzeFullWindow
    /\ UNCHANGED held_views

\* one iteration of the drain loop
Drain ==
    /\ pc = "drain"
    /\ DrainContinues(frame_queue)
    /\ frameno' = DrainFrameno(frameno)
    /\ \E verdict \in BOOLEAN : AnalyzeNextFrame(frameno', verdict)
    /\ progress' = Report(progress, frameno', keyframes')
    /\ frame_queue' = RemoveFirst(frame_queue)
    /\ frame_copies' = IF frame_copy_needed THEN RemoveFirst(frame_copies)
                                            ELSE frame_copies
    /\ UNCHANGED <<stride_queries, held_views, overwritten, copy_write_lost,
                   probes>>
    /\ UNCHANGED <<ff_vars, gfr_vars, target_vars, vs_vars>>
    /\ UNCHANGED <<lookahead_distance, num_frames, stride_ok, has_progress,
                   frame_idx, pc, prime_i, frame_copy_needed, result, decoded>>

\* the drain loop ends on a window of one frame: DetectionResults
Return ==
    /\ pc = "drain"
    /\ ~DrainContinues(frame_queue)
    /\ result' = Returned
    /\ pc' = "done"
    /\ held_views' = <<>>
    /\ UNCHANGED <<stride_queries, overwritten, copy_write_lost, probes>>
    /\ UNCHANGED <<ff_vars, gfr_vars, target_vars, vs_vars>>
    /\ UNCHANGED <<lookahead_distance, num_frames, stride_ok, has_progress,
                   frame_idx, prime_i, frame_copy_needed, frame_queue,
                   frame_copies, keyframes, frameno, calls, progress, decoded>>

DriverInit ==
    /\ lookahead_distance \in 1..MaxLookahead
    /\ num_frames \in 0..MaxFrames
    /\ stride_ok \in BOOLEAN
    /\ has_progress \in BOOLEAN
    /\ frame_idx = 0
    /\ pc = "stride_matches"
    /\ prime_i = 0
    /\ frame_copy_needed = FALSE
    /\ frame_queue = <<>>
    /\ frame_copies = <<>>
    /\ keyframes = <<0>>
    /\ frameno = 0
    /\ result = [returned |-> FALSE, scene_changes |-> <<>>, frame_count |-> 0]
    /\ calls = <<>>
    /\ progress = <<>>
    /\ decoded = 0
    /\ stride_queries = 0
    /\ held_views = <<>>
    /\ overwritten = {}
    /\ copy_write_lost = FALSE
    /\ probes = <<>>

\* ------------------------------------------------ FfmpegDecoder
\* the stream the adapter tracks (streams().best(Type::Video).index())
stream_index == 0

\* stream indices a packet of the container can carry
StreamIndices == {0, 1}

RECURSIVE SeqsUpTo(_, _)
SeqsUpTo(S, n) ==
    IF n = 0 THEN {<<>>}
    ELSE LET shorter == SeqsUpTo(S, n - 1)
         IN  shorter \cup {Append(q, x) : q \in {t \in shorter : Len(t) = n - 1}, x \in S}

\* decoder.receive_frame(alloc): what the native decoder can answer.
\*   "frame" : Ok, one buffered frame is written to alloc
\*   "fault" : Err, a decode error on the frame that was due (the frame is lost)
\*   "none"  : Err, nothing to output (more input needed, or end of stream)
NativeOutcomes ==
    IF nat_ready > 0
    THEN {"frame"} \cup (IF nat_faults < MaxFaults THEN {"fault"} ELSE {})
    ELSE {"none"}

NativeReceive(outcome) ==
    /\ nat_ready' = IF outcome = "none" THEN nat_ready ELSE nat_ready - 1
    /\ nat_faults' = IF outcome = "fault" THEN nat_faults + 1 ELSE nat_faults

\* (mutant) no answer of the native decoder counts as a frame
IsOk_never(outcome) == outcome \notin NativeOutcomes

\* .is_ok() on the answer of the native decoder
IsOk(outcome) == outcome = "frame"

\* (mutant) the answer of the pull is inverted
EofReturn_inverted(outcome) == ~IsOk(outcome)

\* return self.decoder.receive_frame(alloc).is_ok()  (receiving_eof_frames)
EofReturn(outcome) == IsOk(outcome)

FfReturn(value) ==
    /\ ffpc' = "out"
    /\ ffret' = IF value THEN "true" ELSE "false"
    /\ ff_false_count' = IF value THEN ff_false_count ELSE ff_false_count + 1
    /\ ff_ended' = (ff_ended \/ (~value /\ nat_ready' = 0 /\ nat_buffered' = 0))

\* the caller invokes receive_frame
FfCall ==
    /\ ffpc = "out"
    /\ UNCHANGED <<driver_vars, gfr_vars, target_vars, vs_vars>>
    /\ ff_calls < MaxCalls
    /\ ff_calls' = ff_calls + 1
    /\ ffpc' = "loop"
    /\ UNCHANGED <<packet_iter, receiving_frames, receiving_eof_frames,
                   nat_buffered, nat_ready, nat_eof, nat_faults, ffret,
                   ff_false_count, ff_ended>>
    /\ UNCHANGED <<packet_source, packet_polls, sent, eof_sends, pull_failed>>

\* if self.receiving_frames: pull; Ok returns true, Err clears the flag and
\* falls through to the packet source in the same iteration
FfReceivingFrames ==
    /\ ffpc = "loop"
    /\ UNCHANGED <<driver_vars, gfr_vars, target_vars, vs_vars>>
    /\ receiving_frames
    /\ \E outcome \in NativeOutcomes :
          /\ NativeReceive(outcome)
          /\ IF IsOk(outcome)
             THEN /\ FfReturn(TRUE)
                  /\ UNCHANGED <<receiving_frames, pull_failed>>
             ELSE /\ receiving_frames' = FALSE
                  /\ pull_failed' = TRUE
                  /\ ffpc' = "packet"
                  /\ UNCHANGED <<ffret, ff_false_count, ff_ended>>
    /\ UNCHANGED <<packet_iter, receiving_eof_frames, nat_buffered, nat_eof,
                   ff_calls>>
    /\ UNCHANGED <<packet_source, packet_polls, sent, eof_sends>>

\* else if self.receiving_eof_frames: return the answer of one more pull
FfDrainingAtEof ==
    /\ ffpc = "loop"
    /\ UNCHANGED <<driver_vars, gfr_vars, target_vars, vs_vars>>
    /\ ~receiving_frames
    /\ receiving_eof_frames
    /\ \E outcome \in NativeOutcomes :
          /\ NativeReceive(outcome)
          /\ UNCHANGED nat_buffered
          /\ FfReturn(EofReturn(outcome))
    /\ UNCHANGED <<packet_iter, receiving_frames, receiving_eof_frames,
                   nat_eof, ff_calls>>
    /\ UNCHANGED <<packet_source, packet_polls, sent, eof_sends, pull_failed>>

\* (mutant) the loop does not test receiving_eof_frames before the source
AtPacketSource_noeof ==
    \/ ffpc = "packet"
    \/ ffpc = "loop" /\ ~receiving_frames

AtPacketSource ==
    \/ ffpc = "packet"
    \/ ffpc = "loop" /\ ~receiving_frames /\ ~receiving_eof_frames

\* (mutant) the packet read stays at the front of the source
PacketIterNext_stuck(it) == it

\* packet_iter.next() takes the packet at the front off the source
PacketIterNext(it) == Tail(it)

\* (mutant) no packet is skipped
Relevant_any(index) == index \in StreamIndices

\* stream.index() != self.stream_index is the test for skipping a packet
Relevant(index) == index = stream_index

\* the place in the source of the packet packet_iter.next() yields
NextPosition == Len(packet_source) - Len(packet_iter) + 1

\* packet_iter.next() is a packet of another stream: continue
FfSkipPacket ==
    /\ AtPacketSource
    /\ UNCHANGED <<driver_vars, gfr_vars, target_vars, vs_vars>>
    /\ packet_iter # <<>>
    /\ ~Relevant(Head(packet_iter))
    /\ packet_iter' = PacketIterNext(packet_iter)
    /\ packet_polls' = packet_polls + 1
    /\ ffpc' = "loop"
    /\ UNCHANGED <<receiving_frames, receiving_eof_frames, nat_buffered,
                   nat_ready, nat_eof, nat_faults, ffret, ff_calls,
                   ff_false_count, ff_ended>>
    /\ UNCHANGED <<packet_source, sent, eof_sends, pull_failed>>

\* packet_iter.next() is a packet of the tracked stream: send_packet; the
\* native decoder takes in one frame and makes any number of the frames it
\* holds available for output
FfSendPacket ==
    /\ AtPacketSource
    /\ UNCHANGED <<driver_vars, gfr_vars, target_vars, vs_vars>>
    /\ packet_iter # <<>>
    /\ Relevant(Head(packet_iter))
    /\ packet_iter' = PacketIterNext(packet_iter)
    /\ packet_polls' = packet_polls + 1
    /\ sent' = Append(sent, NextPosition)
    /\ pull_failed' = FALSE
    /\ \E released \in 0..(nat_buffered + 1) :
          /\ nat_ready' = nat_ready + released
          /\ nat_buffered' = nat_buffered + 1 - released
    /\ receiving_frames' = TRUE
    /\ ffpc' = "loop"
    /\ UNCHANGED <<receiving_eof_frames, nat_eof, nat_faults, ffret, ff_calls,
                   ff_false_count, ff_ended>>
    /\ UNCHANGED <<packet_source, eof_sends>>

\* packet_iter.next() is None: send_eof; the native decoder makes every frame
\* it still holds available for output
FfSendEof ==
    /\ AtPacketSource
    /\ UNCHANGED <<driver_vars, gfr_vars, target_vars, vs_vars>>
    /\ packet_iter = <<>>
    /\ nat_eof' = TRUE
    /\ nat_ready' = nat_ready + nat_buffered
    /\ nat_buffered' = 0
    /\ receiving_eof_frames' = TRUE
    /\ ffpc' = "loop"
    /\ packet_polls' = packet_polls + 1
    /\ eof_sends' = eof_sends + 1
    /\ UNCHANGED <<packet_iter, receiving_frames, nat_faults, ffret, ff_calls,
                   ff_false_count, ff_ended>>
    /\ UNCHANGED <<packet_source, sent, pull_failed>>

FfInit ==
    /\ packet_iter \in SeqsUpTo(StreamIndices, MaxPackets)
    /\ packet_source = packet_iter
    /\ packet_polls = 0
    /\ sent = <<>>
    /\ eof_sends = 0
    /\ pull_failed = FALSE
    /\ receiving_frames = FALSE
    /\ receiving_eof_frames = FALSE
    /\ nat_buffered = 0
    /\ nat_ready = 0
    /\ nat_eof = FALSE
    /\ nat_faults = 0
    /\ ffpc = "out"
    /\ ffret = "none"
    /\ ff_calls = 0
    /\ ff_false_count = 0
    /\ ff_ended = FALSE

\* ------------------------------------------------ get_frame_ref
PixelSizes == {1, 2}

\* the view is made directly over the backend's plane
NativeLayoutSatisfies(frame_stride, frame_height, str, size_of, ah) ==
    LET stride_adjusted == str * size_of
    IN  frame_stride = stride_adjusted /\ frame_height >= ah

\* if !strict || (frame.stride(0) == stride_adjusted && ...) { FrameView::Ref(..) }
GetFrameRefOverBackend ==
    /\ gfr_pc = "call"
    /\ \/ ~gfr_strict
       \/ NativeLayoutSatisfies(gfr_frame_stride, gfr_frame_height, gfr_stride,
                                gfr_size_of, gfr_alloc_height)
    /\ gfr_view' = [kind |-> "Ref", over |-> "backend", copied |-> FALSE]
    /\ gfr_pc' = "returned"
    /\ UNCHANGED <<gfr_strict, gfr_alloc, gfr_frame_stride, gfr_frame_height,
                   gfr_stride, gfr_alloc_height, gfr_size_of>>
    /\ UNCHANGED <<driver_vars, ff_vars, target_vars, vs_vars>>

\* else { let alloc = alloc.unwrap(); alloc.copy_from_raw_u8(..); FrameView::Ref(..) }
GetFrameRefOverAlloc ==
    /\ gfr_pc = "call"
    /\ gfr_strict
    /\ ~NativeLayoutSatisfies(gfr_frame_stride, gfr_frame_height, gfr_stride,
                              gfr_size_of, gfr_alloc_height)
    /\ gfr_alloc = "Some"
    /\ gfr_view' = [kind |-> "Ref", over |-> "alloc", copied |-> TRUE]
    /\ gfr_pc' = "returned"
    /\ UNCHANGED <<gfr_strict, gfr_alloc, gfr_frame_stride, gfr_frame_height,
                   gfr_stride, gfr_alloc_height, gfr_size_of>>
    /\ UNCHANGED <<driver_vars, ff_vars, target_vars, vs_vars>>

\* else { let alloc = alloc.unwrap(); .. } with alloc = None: the unwrap panics
GetFrameRefUnwrapNone ==
    /\ gfr_pc = "call"
    /\ gfr_strict
    /\ ~NativeLayoutSatisfies(gfr_frame_stride, gfr_frame_height, gfr_stride,
                              gfr_size_of, gfr_alloc_height)
    /\ gfr_alloc = "None"
    /\ gfr_pc' = "panicked"
    /\ UNCHANGED <<gfr_strict, gfr_alloc, gfr_frame_stride, gfr_frame_height,
                   gfr_stride, gfr_alloc_height, gfr_size_of, gfr_view>>
    /\ UNCHANGED <<driver_vars, ff_vars, target_vars, vs_vars>>

GfrInit ==
    /\ gfr_strict \in BOOLEAN
    /\ gfr_alloc \in {"Some", "None"}
    /\ gfr_size_of \in PixelSizes
    /\ gfr_stride \in 1..MaxStride
    /\ gfr_frame_stride \in 1..(2 * MaxStride)
    /\ gfr_frame_height \in 1..MaxPlaneHeight
    /\ gfr_alloc_height \in 1..MaxPlaneHeight
    /\ gfr_pc = "call"
    /\ gfr_view = [kind |-> "none", over |-> "none", copied |-> FALSE]

\* ------------------------------------------------ target dimensions
SB_SIZE_LOG2 == 6

\* (mutant) the shift without the rounding term
align_power_of_two_and_shift_floor(x, n) == x \div (2 ^ n)

\* (x + (1 << n) - 1) >> n
align_power_of_two_and_shift(x, n) == (x + (2 ^ n) - 1) \div (2 ^ n)

\* (video_details.height, video_details.width)
TargetFast ==
    /\ target_pc = "start"
    /\ analysis_speed = "Fast"
    /\ alloc_height' = video_height
    /\ stride' = video_width
    /\ target_pc' = "computed"
    /\ UNCHANGED <<analysis_speed, video_height, video_width>>
    /\ UNCHANGED <<driver_vars, ff_vars, gfr_vars, vs_vars>>

\* (align_power_of_two_and_shift(.., SB_SIZE_LOG2) << SB_SIZE_LOG2, ..)
TargetAligned ==
    /\ target_pc = "start"
    /\ analysis_speed # "Fast"
    /\ alloc_height' =
          align_power_of_two_and_shift(video_height, SB_SIZE_LOG2) * (2 ^ SB_SIZE_LOG2)
    /\ stride' =
          align_power_of_two_and_shift(video_width, SB_SIZE_LOG2) * (2 ^ SB_SIZE_LOG2)
    /\ target_pc' = "computed"
    /\ UNCHANGED <<analysis_speed, video_height, video_width>>
    /\ UNCHANGED <<driver_vars, ff_vars, gfr_vars, vs_vars>>

TargetInit ==
    /\ analysis_speed \in {"Fast", "Standard"}
    /\ video_height \in 0..MaxDim
    /\ video_width \in 0..MaxDim
    /\ alloc_height = 0
    /\ stride = 0
    /\ target_pc = "start"

\* ------------------------------------------------ calls on the pull adapter
NoFrame == 0 - 1

\* a caller invokes receive_frame_init
VsCallReceiveFrameInit ==
    /\ pc = "adapter"
    /\ Len(probes) < MaxCalls
    /\ LET r == VsReceiveFrameInit(frame_idx) IN
       /\ frame_idx' = r.frame_idx
       /\ probes' = Probe(frame_idx, r.ok)
       /\ vs_ret' = [op |-> "receive_frame_init", ok |-> r.ok,
                     frame |-> IF r.ok THEN r.frame ELSE NoFrame]
    /\ UNCHANGED vs_x
    /\ UNCHANGED <<lookahead_distance, num_frames, stride_ok, has_progress,
                   pc, prime_i, frame_copy_needed, frame_queue, frame_copies,
                   keyframes, frameno, result, calls, progress, decoded,
                   stride_queries, held_views, overwritten, copy_write_lost>>
    /\ UNCHANGED <<ff_vars, gfr_vars, target_vars>>

\* a caller invokes receive_frame on its buffer x
VsCallReceiveFrame ==
    /\ pc = "adapter"
    /\ Len(probes) < MaxCalls
    /\ LET r == VsReceiveFrame(frame_idx, vs_x) IN
       /\ frame_idx' = r.frame_idx
       /\ probes' = Probe(frame_idx, r.ok)
       /\ vs_x' = r.frame
       /\ vs_ret' = [op |-> "receive_frame", ok |-> r.ok, frame |-> r.frame]
    /\ UNCHANGED <<lookahead_distance, num_frames, stride_ok, has_progress,
                   pc, prime_i, frame_copy_needed, frame_queue, frame_copies,
                   keyframes, frameno, result, calls, progress, decoded,
                   stride_queries, held_views, overwritten, copy_write_lost>>
    /\ UNCHANGED <<ff_vars, gfr_vars, target_vars>>

\* a caller invokes stride_matches
VsCallStrideMatches ==
    /\ pc = "adapter"
    /\ frame_idx' = VsCursorAfterStrideMatches(frame_idx)
    /\ vs_ret' = [op |-> "stride_matches", ok |-> VsStrideMatches(frame_idx),
                  frame |-> IF NodeGetFrame(frame_idx).ok
                              THEN NodeGetFrame(frame_idx).frame ELSE NoFrame]
    /\ UNCHANGED <<vs_x, probes>>
    /\ UNCHANGED <<lookahead_distance, num_frames, stride_ok, has_progress,
                   pc, prime_i, frame_copy_needed, frame_queue, frame_copies,
                   keyframes, frameno, result, calls, progress, decoded,
                   stride_queries, held_views, overwritten, copy_write_lost>>
    /\ UNCHANGED <<ff_vars, gfr_vars, target_vars>>

\* VapoursynthDecoder::new: frame_idx: 0
VsInit ==
    /\ num_frames \in 0..MaxFrames
    /\ stride_ok \in BOOLEAN
    /\ frame_idx = 0
    /\ pc = "adapter"
    /\ probes = <<>>
    /\ vs_ret = [op |-> "new", ok |-> TRUE, frame |-> NoFrame]
    /\ vs_x = NoFrame
    /\ lookahead_distance = 1
    /\ has_progress = FALSE
    /\ prime_i = 0
    /\ frame_copy_needed = FALSE
    /\ frame_queue = <<>>
    /\ frame_copies = <<>>
    /\ keyframes = <<0>>
    /\ frameno = 0
    /\ result = [returned |-> FALSE, scene_changes |-> <<>>, frame_count |-> 0]
    /\ calls = <<>>
    /\ progress = <<>>
    /\ decoded = 0
    /\ stride_queries = 0
    /\ held_views = <<>>
    /\ overwritten = {}
    /\ copy_write_lost = FALSE

VsIdle ==
    /\ vs_ret = [op |-> "none", ok |-> FALSE, frame |-> NoFrame]
    /\ vs_x = NoFrame

\* ------------------------------------------------ a pass over FfmpegDecoder
\* every field of the adapter and its collaborators but the returned value
ff_rest == <<packet_iter, receiving_frames, receiving_eof_frames,
             nat_buffered, nat_ready, nat_eof, nat_faults, ffpc,
             ff_calls, ff_false_count, ff_ended, packet_source,
             packet_polls, sent, eof_sends, pull_failed>>

\* (mutant) the push adapter reports a stride mismatch
FfStrideMatches_false == FALSE

\* FfmpegDecoder::stride_matches: "Stride always matches"
FfStrideMatches == TRUE

\* what the driver gets from receive_frame_init / receive_frame: Some/true
\* with the next decoded frame, or None/false
FfAnswer == [ok |-> ffret = "true", frame |-> decoded, frame_idx |-> frame_idx]

RetrievalPoints == {"priming", "last_priming", "slide"}

\* let frame_copy_needed = !dec.stride_matches(..) on the push adapter
PassStrideMatches ==
    /\ StrideMatchesStep(FfStrideMatches, frame_idx)
    /\ UNCHANGED ff_vars

\* the driver calls receive_frame_init / receive_frame on the push adapter
PassCall ==
    /\ pc \in RetrievalPoints
    /\ ffret = "none"
    /\ FfCall

\* the call of the priming loop has returned
PassPrimingFrame ==
    /\ ffpc = "out"
    /\ ffret # "none"
    /\ PrimingStep(FfAnswer)
    /\ ffret' = "none"
    /\ UNCHANGED ff_rest

\* the call for the last priming frame has returned
PassLastPrimingFrame ==
    /\ ffpc = "out"
    /\ ffret # "none"
    /\ LastPrimingStep(FfAnswer)
    /\ ffret' = "none"
    /\ UNCHANGED ff_rest

\* the call of the sliding loop has returned
PassSlideDecode ==
    /\ ffpc = "out"
    /\ ffret # "none"
    /\ SlideStep(FfAnswer)
    /\ ffret' = "none"
    /\ UNCHANGED ff_rest

\* detect_scene_changes::<frame::Video, FfmpegDecoder, T>
PassInit ==
    /\ DriverInit
    /\ num_frames = 0
    /\ stride_ok = TRUE

\* ------------------------------------------------ specifications
\* the state of the component a specification does not run
DriverIdle ==
    /\ lookahead_distance = 1
    /\ num_frames = 0
    /\ stride_ok = TRUE
    /\ has_progress = FALSE
    /\ frame_idx = 0
    /\ pc = "idle"
    /\ prime_i = 0
    /\ frame_copy_needed = FALSE
    /\ frame_queue = <<>>
    /\ frame_copies = <<>>
    /\ keyframes = <<0>>
    /\ frameno = 0
    /\ result = [returned |-> FALSE, scene_changes |-> <<>>, frame_count |-> 0]
    /\ calls = <<>>
    /\ progress = <<>>
    /\ decoded = 0
    /\ stride_queries = 0
    /\ held_views = <<>>
    /\ overwritten = {}
    /\ copy_write_lost = FALSE
    /\ probes = <<>>

FfIdle ==
    /\ packet_iter = <<>>
    /\ packet_source = <<>>
    /\ packet_polls = 0
    /\ sent = <<>>
    /\ eof_sends = 0
    /\ pull_failed = FALSE
    /\ receiving_frames = FALSE
    /\ receiving_eof_frames = FALSE
    /\ nat_buffered = 0
    /\ nat_ready = 0
    /\ nat_eof = FALSE
    /\ nat_faults = 0
    /\ ffpc = "idle"
    /\ ffret = "none"
    /\ ff_calls = 0
    /\ ff_false_count = 0
    /\ ff_ended = FALSE

GfrIdle ==
    /\ gfr_strict = FALSE
    /\ gfr_alloc = "None"
    /\ gfr_size_of = 1
    /\ gfr_stride = 1
    /\ gfr_frame_stride = 1
    /\ gfr_frame_height = 1
    /\ gfr_alloc_height = 1
    /\ gfr_pc = "idle"
    /\ gfr_view = [kind |-> "none", over |-> "none", copied |-> FALSE]

TargetIdle ==
    /\ analysis_speed = "Fast"
    /\ video_height = 0
    /\ video_width = 0
    /\ alloc_height = 0
    /\ stride = 0
    /\ target_pc = "idle"

Init == DriverInit /\ FfIdle /\ GfrIdle /\ TargetIdle /\ VsIdle

Next ==
    \/ StrideMatches
    \/ PrimingFrame
    \/ LastPrimingFrame
    \/ FirstAnalysis
    \/ SlideDecode
    \/ SlideAnalysis
    \/ Drain
    \/ Return

Spec == Init /\ [][Next]_vars

InitFfmpeg == FfInit /\ DriverIdle /\ GfrIdle /\ TargetIdle /\ VsIdle

NextFfmpeg ==
    \/ FfCall
    \/ FfReceivingFrames
    \/ FfDrainingAtEof
    \/ FfSkipPacket
    \/ FfSendPacket
    \/ FfSendEof

SpecFfmpeg == InitFfmpeg /\ [][NextFfmpeg]_vars

InitGetFrameRef == GfrInit /\ DriverIdle /\ FfIdle /\ TargetIdle /\ VsIdle

NextGetFrameRef ==
    \/ GetFrameRefOverBackend
    \/ GetFrameRefOverAlloc
    \/ GetFrameRefUnwrapNone

SpecGetFrameRef == InitGetFrameRef /\ [][NextGetFrameRef]_vars

InitTarget == TargetInit /\ DriverIdle /\ FfIdle /\ GfrIdle /\ VsIdle

NextTarget ==
    \/ TargetFast
    \/ TargetAligned

SpecTarget == InitTarget /\ [][NextTarget]_vars

InitVapoursynth == VsInit /\ FfIdle /\ GfrIdle /\ TargetIdle

NextVapoursynth ==
    \/ VsCallReceiveFrameInit
    \/ VsCallReceiveFrame
    \/ VsCallStrideMatches

SpecVapoursynth == InitVapoursynth /\ [][NextVapoursynth]_vars

InitFfmpegPass == PassInit /\ FfInit /\ GfrIdle /\ TargetIdle /\ VsIdle

NextFfmpegPass ==
    \/ PassStrideMatches
    \/ PassCall
    \/ FfReceivingFrames
    \/ FfDrainingAtEof
    \/ FfSkipPacket
    \/ FfSendPacket
    \/ FfSendEof
    \/ PassPrimingFrame
    \/ PassLastPrimingFrame
    \/ FirstAnalysis
    \/ PassSlideDecode
    \/ SlideAnalysis
    \/ Drain
    \/ Return

SpecFfmpegPass == InitFfmpegPass /\ [][NextFfmpegPass]_vars

\* the driver and the adapter are one sequential thread: a step that can be
\* taken is taken
FairSpecFfmpegPass == SpecFfmpegPass /\ WF_vars(NextFfmpegPass)

\* ------------------------------------------------ properties of a pass
\* the stream fills the window: N >= lookahead_distance + 2
FullStream == num_frames >= lookahead_distance + 2

Done == pc = "done"

StrictlyIncreasing(s) == \A i \in 1..(Len(s) - 1) : s[i] < s[i + 1]

\* C1: for a stream of N >= lookahead_distance + 2 frames and any verdicts,
\* the returned frame_count is N, the number of frames decoded.
FrameCountIsDecoded ==
    (Done /\ FullStream) =>
        (result.frame_count = num_frames /\ result.frame_count = decoded)

FrameCountIsDecodedWitness ==
    /\ Done
    /\ num_frames >= lookahead_distance + 3
    /\ lookahead_distance >= 2
    /\ result.frame_count = num_frames
    /\ Len(result.scene_changes) >= 2

\* C2: for a stream of N >= lookahead_distance + 2 frames and any verdicts,
\* no returned keyframe index is >= frame_count.
KeyframesBelowFrameCount ==
    (Done /\ FullStream) =>
        \A i \in 1..Len(result.scene_changes) :
            result.scene_changes[i] < result.frame_count

\* C3: each analyze_next_frame call receives a frame number one greater than
\* the previous call, across the sliding and the drain phase.
FramenoStepsByOne ==
    \A i \in 2..Len(calls) : calls[i].frameno = calls[i - 1].frameno + 1

\* C4: for a stream of N < lookahead_distance + 2 frames the pass returns
\* frame_count = the number of frames decoded before exhaustion (N).
ShortStreamFrameCount ==
    (Done /\ ~FullStream) =>
        (result.frame_count = decoded /\ result.frame_count = num_frames)

\* C5: for a stream of N < lookahead_distance + 2 frames the engine is never
\* invoked and the returned keyframe list is exactly [0].
ShortStreamNoAnalysis ==
    ~FullStream =>
        /\ calls = <<>>
        /\ keyframes = <<0>>
        /\ Done => result.scene_changes = <<0>>

ShortStreamNoAnalysisWitness ==
    /\ Done
    /\ num_frames = lookahead_distance + 1
    /\ decoded = num_frames
    /\ result.scene_changes = <<0>>

\* C6: at every point of every pass the keyframe list starts with 0 and is
\* strictly increasing (and so is the list the pass returns).
KeyframesStartZeroIncreasing ==
    /\ Len(keyframes) >= 1
    /\ keyframes[1] = 0
    /\ StrictlyIncreasing(keyframes)
    /\ Done => (result.scene_changes = keyframes)

KeyframesStartZeroIncreasingWitness ==
    /\ Done
    /\ Len(result.scene_changes) >= 4
    /\ \E i \in 1..Len(calls) :
          calls[i].verdict /\ Len(calls[i].window) < lookahead_distance + 2

\* C7: the most-recent-keyframe argument of every analysis call is the last
\* entry of the keyframe list as it stood before the call; a keyframe appended
\* by a call is that argument of the next call, never of the same call.
PreviousKeyframeIsLastBeforeCall ==
    /\ [][calls' # calls =>
            /\ Len(calls') = Len(calls) + 1
            /\ Last(calls').previous_keyframe = keyframes[Len(keyframes)]
            /\ Last(calls').previous_keyframe # Last(calls').frameno]_vars
    /\ [](\A i \in 2..Len(calls) :
            calls[i].previous_keyframe =
                IF calls[i - 1].verdict THEN calls[i - 1].frameno
                                        ELSE calls[i - 1].previous_keyframe)

PreviousKeyframeIsLastBeforeCallWitness ==
    /\ Len(calls) >= 3
    /\ calls[1].verdict
    /\ calls[2].previous_keyframe = calls[1].frameno
    /\ ~calls[2].verdict
    /\ calls[3].previous_keyframe = calls[1].frameno

\* C8: the progress callback is invoked once per frame: its first argument
\* runs 1, 2, ..., N over a pass of N >= lookahead_distance + 2 frames (the
\* first invocation, for frame 0, comes before any analysis call), and its
\* second argument is the length of the keyframe list at the invocation.
ProgressOncePerFrame ==
    /\ [](has_progress =>
            /\ \A i \in 1..Len(progress) : progress[i][1] = i
            /\ (pc \in {"last_priming", "first_analysis"}) =>
                    (progress = <<(<<1, 1>>)>> /\ calls = <<>>)
            /\ (Done /\ FullStream) => Len(progress) = num_frames)
    /\ [][progress' # progress =>
            /\ Len(progress') = Len(progress) + 1
            /\ Last(progress')[2] = Len(keyframes')]_vars

ProgressOncePerFrameWitness ==
    /\ Done
    /\ has_progress
    /\ num_frames >= lookahead_distance + 3
    /\ Len(progress) = num_frames
    /\ Last(progress) = <<num_frames, 3>>

\* ------------------------------------------------ properties of the push adapter
ReturnedFalse == ffpc = "out" /\ ffret = "false"

NativeDrained == nat_ready = 0 /\ nat_buffered = 0

\* C9: receive_frame returns false only after the packet source is exhausted,
\* the end-of-stream signal was sent and a pull after it failed; never while
\* packets remain or before the decoder's buffered frames have been drained.
EofOnlyWhenDrained ==
    ReturnedFalse =>
        (packet_iter = <<>> /\ nat_eof /\ receiving_eof_frames /\ NativeDrained)

\* the same statement for the runs in which the native decoder reports no
\* decode fault
EofOnlyWhenDrainedWithoutFault ==
    (ReturnedFalse /\ nat_faults = 0) =>
        (packet_iter = <<>> /\ nat_eof /\ receiving_eof_frames /\ NativeDrained)

\* C10: once receive_frame has returned false on a native decoder that has
\* nothing left to output, every later receive_frame call returns false.
EofIsPermanent == [][ff_ended => ffret' = "false"]_vars

EofIsPermanentWitness ==
    /\ ff_ended
    /\ ff_false_count >= 2
    /\ ReturnedFalse
    /\ nat_faults = 0

\* C11: a decode fault reported by the native decoder on a frame pull is fatal:
\* once one was reported, receive_frame never returns to its caller as if
\* nothing happened (neither false, end of stream, nor true for a later frame).
PullFaultIsFatal == nat_faults > 0 => ffpc # "out"

\* ------------------------------------------------ windows, views and copies
\* the copies of the frames in the window slots, slot by slot
CopiesOf(frames) == [j \in 1..Len(frames) |-> [kind |-> "Copy", data |-> frames[j]]]

WindowKinds(w) == {w[j].kind : j \in 1..Len(w)}

CopyModeWindowIsCopiesWhenWritesLand ==
    (frame_copy_needed /\ ~copy_write_lost) =>
        \A i \in 1..Len(calls) : calls[i].window = CopiesOf(calls[i].frames)

\* C13: no aliased view made from a window slot before a decode into that slot
\* is still held by the driver, or passed to the engine, after that decode.
NoViewHeldAcrossDecode ==
    /\ \A j \in 1..Len(held_views) : held_views[j].data \notin overwritten
    /\ \A i \in 1..Len(calls) : \A j \in 1..Len(calls[i].window) :
          calls[i].window[j].kind = "Ref" =>
              calls[i].window[j].data = calls[i].frames[j]

\* the part of it about the views the engine receives
NoStaleViewPassedToEngine ==
    \A i \in 1..Len(calls) : \A j \in 1..Len(calls[i].window) :
        calls[i].window[j].kind = "Ref" =>
            calls[i].window[j].data = calls[i].frames[j]

\* C15: stride_matches is called exactly once, before the first frame
\* retrieval, and the copy-mode decision taken from it is the one every
\* analysis call of the pass is made under.
StrideMatchesOnceBeforeDecoding ==
    /\ [](/\ stride_queries <= 1
          /\ pc # "stride_matches" => stride_queries = 1
          /\ frame_idx > 0 => stride_queries = 1
          /\ \A i \in 1..Len(calls) :
                /\ Len(calls[i].window) = Len(calls[i].frames)
                /\ WindowKinds(calls[i].window) =
                       {IF frame_copy_needed THEN "Copy" ELSE "Ref"})
    /\ [][/\ stride_queries' # stride_queries => (frame_idx = 0 /\ frame_idx' = 0)
          /\ pc # "stride_matches" => frame_copy_needed' = frame_copy_needed]_vars

StrideMatchesOnceBeforeDecodingWitness ==
    /\ Done
    /\ ~frame_copy_needed
    /\ stride_queries = 1
    /\ num_frames >= lookahead_distance + 3
    /\ Len(Last(calls).window) < lookahead_distance + 2

\* C16: no analysis call before lookahead_distance + 2 frames are decoded; the
\* first call and every call made while decoding succeeds get a window of
\* exactly lookahead_distance + 2 frames.
WindowFullBeforeDrain ==
    /\ [](calls # <<>> =>
            /\ decoded >= lookahead_distance + 2
            /\ Len(calls[1].window) = lookahead_distance + 2)
    /\ [][(calls' # calls /\ pc \in {"first_analysis", "slide_analysis"}) =>
            /\ Len(frame_queue) = lookahead_distance + 2
            /\ Len(Last(calls').window) = lookahead_distance + 2]_vars

WindowFullBeforeDrainWitness ==
    /\ pc = "slide"
    /\ Len(calls) >= 3
    /\ \A i \in 1..Len(calls) : Len(calls[i].window) = lookahead_distance + 2

\* C17: after the first end of stream the engine is called on windows that
\* shrink by exactly one frame per call, each of at least two frames, and the
\* pass ends exactly when the window holds a single frame.
DrainShrinksToOne ==
    /\ [][(pc = "drain" /\ calls' # calls) =>
            /\ Len(frame_queue) >= 2
            /\ Len(Last(calls').window) = Len(frame_queue)
            /\ Len(frame_queue') = Len(frame_queue) - 1]_vars
    /\ [][(pc = "drain" /\ pc' = "done") => Len(frame_queue) = 1]_vars
    /\ [](\A i \in 2..Len(calls) :
            Len(calls[i].window) < lookahead_distance + 2 =>
                /\ Len(calls[i].window) = Len(calls[i - 1].window) - 1
                /\ Len(calls[i].window) >= 2)
    /\ []((Done /\ FullStream) =>
            /\ Len(frame_queue) = 1
            /\ Len(Last(calls).window) = 2
            /\ Len(calls) = num_frames - 1)

DrainShrinksToOneWitness ==
    /\ Done
    /\ lookahead_distance >= 3
    /\ num_frames >= lookahead_distance + 3
    /\ Len(frame_queue) = 1
    /\ Len(Last(calls).window) = 2

\* C18: at every analysis call the logical indices of the window are
\* consecutive ascending integers; a successful slide relabels the reused
\* slot to one past the previous maximum, an exhausted one drops it.
WindowIndicesConsecutive ==
    /\ [](\A i \in 1..Len(calls) : \A j \in 1..(Len(calls[i].indices) - 1) :
            calls[i].indices[j + 1] = calls[i].indices[j] + 1)
    /\ [][(pc = "slide" /\ pc' = "slide_analysis") =>
            /\ Len(frame_queue') = Len(frame_queue)
            /\ \A j \in 1..Len(frame_queue) :
                  frame_queue[j][1] < Last(frame_queue')[1]
            /\ \E j \in 1..Len(frame_queue) :
                  frame_queue[j][1] + 1 = Last(frame_queue')[1]
            /\ \A j \in 1..(Len(frame_queue) - 1) :
                  frame_queue'[j] = frame_queue[j + 1]]_vars
    /\ [][(pc = "slide" /\ pc' = "drain") =>
            frame_queue' = RemoveFirst(frame_queue)]_vars

WindowIndicesConsecutiveWitness ==
    /\ Len(calls) >= 3
    /\ calls[2].indices[1] = 1
    /\ Len(calls[2].indices) = lookahead_distance + 2
    /\ Len(Last(calls).indices) < lookahead_distance + 2

\* C19: the keyframe list changes only by an analysis call that returned
\* true, which appends the frame number passed to that call; a call that
\* returned false leaves it as it was.
KeyframesAppendOnlyOnCut ==
    [][/\ keyframes' # keyframes =>
            /\ Len(calls') = Len(calls) + 1
            /\ Last(calls').verdict
            /\ keyframes' = Append(keyframes, Last(calls').frameno)
       /\ calls' # calls =>
            /\ Last(calls').verdict => keyframes' # keyframes
            /\ ~Last(calls').verdict => keyframes' = keyframes]_vars

KeyframesAppendOnlyOnCutWitness ==
    /\ Len(calls) >= 3
    /\ calls[1].verdict
    /\ ~calls[2].verdict
    /\ calls[3].verdict
    /\ keyframes = <<0, calls[1].frameno, calls[3].frameno>>

\* ------------------------------------------------ get_frame_ref, alignment
GfrLayoutOk ==
    NativeLayoutSatisfies(gfr_frame_stride, gfr_frame_height, gfr_stride,
                          gfr_size_of, gfr_alloc_height)

\* C14: with strict and a native layout that does not satisfy the request,
\* get_frame_ref copies into alloc and aliases it when alloc is given and
\* returns a fresh Owned copy when it is absent; with strict false or a
\* satisfying layout it returns an aliased view over backend memory, no copy.
GetFrameRefContract ==
    gfr_pc \in {"returned", "panicked"} =>
        IF ~gfr_strict \/ GfrLayoutOk
        THEN gfr_view = [kind |-> "Ref", over |-> "backend", copied |-> FALSE]
        ELSE IF gfr_alloc = "Some"
        THEN gfr_view = [kind |-> "Ref", over |-> "alloc", copied |-> TRUE]
        ELSE gfr_pc = "returned" /\ gfr_view.kind = "Owned" /\ gfr_view.copied

\* the two cases of it in which alloc is not needed or is given
GetFrameRefContractWithAlloc ==
    (gfr_pc \in {"returned", "panicked"} /\
     (~gfr_strict \/ GfrLayoutOk \/ gfr_alloc = "Some")) =>
        /\ gfr_pc = "returned"
        /\ IF ~gfr_strict \/ GfrLayoutOk
           THEN gfr_view = [kind |-> "Ref", over |-> "backend", copied |-> FALSE]
           ELSE gfr_view = [kind |-> "Ref", over |-> "alloc", copied |-> TRUE]

\* no call returns an Owned view
GetFrameRefNeverOwned == gfr_view.kind # "Owned"

\* r is the smallest multiple of 64 that is >= x
SmallestMultipleOf64AtLeast(r, x) ==
    /\ r % 64 = 0
    /\ r >= x
    /\ \A m \in 0..(x + 64) : (m % 64 = 0 /\ m >= x) => r <= m

\* C20: the target (alloc_height, stride) is the native (height, width) in
\* Fast mode; in Standard mode each is the smallest multiple of 64 that is
\* >= the native dimension: a multiple of 64 is unchanged and the result
\* exceeds the native dimension by at most 63.
TargetIsAlignedUp ==
    target_pc = "computed" =>
        IF analysis_speed = "Fast"
        THEN alloc_height = video_height /\ stride = video_width
        ELSE /\ SmallestMultipleOf64AtLeast(alloc_height, video_height)
             /\ SmallestMultipleOf64AtLeast(stride, video_width)
             /\ video_height % 64 = 0 => alloc_height = video_height
             /\ video_width % 64 = 0 => stride = video_width
             /\ alloc_height - video_height <= 63
             /\ stride - video_width <= 63

TargetIsAlignedUpWitness ==
    /\ target_pc = "computed"
    /\ analysis_speed = "Standard"
    /\ video_height = 65
    /\ alloc_height = 128
    /\ video_width = 64
    /\ stride = 64

\* ------------------------------------------------ the push-style adapter
\* the places in the part of the source read so far that hold a packet of
\* the tracked stream, in source order
RECURSIVE TrackedPositions(_)
TrackedPositions(n) ==
    IF n = 0 THEN <<>>
    ELSE IF packet_source[n] = stream_index
         THEN Append(TrackedPositions(n - 1), n)
         ELSE TrackedPositions(n - 1)

PacketsRead == Len(packet_source) - Len(packet_iter)

\* C21: the end-of-stream signal is sent at most once; once it has been sent
\* the adapter stays in DrainingAtEof, never polls the packet source again
\* and never sends another packet.
EofSentOnce ==
    /\ [](eof_sends <= 1 /\ (eof_sends = 1 <=> receiving_eof_frames))
    /\ [][receiving_eof_frames =>
            /\ receiving_eof_frames'
            /\ ~receiving_frames'
            /\ packet_polls' = packet_polls
            /\ packet_iter' = packet_iter
            /\ sent' = sent
            /\ eof_sends' = eof_sends]_vars

EofSentOnceWitness ==
    /\ eof_sends = 1
    /\ receiving_eof_frames
    /\ ff_false_count >= 2
    /\ Len(sent) >= 2

\* C22: a failed pull in ReceivingFrames moves the adapter to Idle and makes it
\* fetch the next packet within the same call, never returning false by
\* itself; a successful pull returns exactly one frame and leaves the state
\* ReceivingFrames.
ReceivingFramesPull ==
    /\ [][(receiving_frames /\ ffpc = "loop") =>
            \/ /\ nat_ready' = nat_ready - 1
               /\ nat_faults' = nat_faults
               /\ ffpc' = "out"
               /\ ffret' = "true"
               /\ receiving_frames'
               /\ packet_polls' = packet_polls
            \/ /\ nat_ready = 0 \/ nat_faults' = nat_faults + 1
               /\ ~receiving_frames' /\ ~receiving_eof_frames'
               /\ ffpc' = "packet"
               /\ ff_calls' = ff_calls
               /\ ff_false_count' = ff_false_count]_vars
    /\ [][ffpc = "packet" =>
            /\ packet_polls' = packet_polls + 1
            /\ ff_calls' = ff_calls
            /\ ff_false_count' = ff_false_count]_vars
    /\ [][ff_false_count' # ff_false_count =>
            ~receiving_frames /\ receiving_eof_frames]_vars

ReceivingFramesPullWitness ==
    /\ ffpc = "out"
    /\ ffret = "true"
    /\ receiving_frames
    /\ pull_failed = FALSE
    /\ Len(sent) >= 2
    /\ ff_calls >= 2
    /\ ff_false_count = 0

\* C23: the packets sent to the native decoder are exactly the packets of the
\* tracked stream, each once and in source order; a packet of another stream
\* is skipped without a change of the adapter state; a packet is sent only in
\* Idle, after the decoder failed to produce a frame from the packets sent.
SendsTrackedPacketsInOrder ==
    /\ [](sent = TrackedPositions(PacketsRead))
    /\ [](receiving_eof_frames => sent = TrackedPositions(Len(packet_source)))
    /\ [][(packet_iter' # packet_iter /\ sent' = sent) =>
            /\ Head(packet_iter) # stream_index
            /\ receiving_frames' = receiving_frames
            /\ receiving_eof_frames' = receiving_eof_frames
            /\ nat_buffered' = nat_buffered
            /\ nat_ready' = nat_ready
            /\ nat_eof' = nat_eof]_vars
    /\ [][sent' # sent =>
            /\ ~receiving_frames /\ ~receiving_eof_frames
            /\ sent = <<>> \/ pull_failed
            /\ receiving_frames']_vars

SendsTrackedPacketsInOrderWitness ==
    /\ packet_source = <<1, 0, 1, 0>>
    /\ sent = <<2, 4>>
    /\ receiving_eof_frames

\* ------------------------------------------------ the pull-style adapter
\* C24: the cursor frame_idx increases by exactly 1 on every
\* receive_frame_init/receive_frame attempt, failed or not: attempt number k
\* (from 0) probes frame index k and no index is probed twice.
CursorAdvancesOnEveryAttempt ==
    /\ [](/\ frame_idx = Len(probes)
          /\ \A k \in 1..Len(probes) :
                /\ probes[k].idx = k - 1
                /\ probes[k].ok = (k - 1 < num_frames))
    /\ [][probes' # probes =>
            /\ frame_idx' = frame_idx + 1
            /\ Last(probes').idx = frame_idx]_vars

CursorAdvancesOnEveryAttemptWitness ==
    /\ num_frames = 1
    /\ Len(probes) = 4
    /\ probes[1].ok
    /\ ~probes[2].ok /\ ~probes[3].ok /\ ~probes[4].ok
    /\ probes[3].idx = 2 /\ probes[4].idx = 3
    /\ vs_ret.op = "receive_frame"

\* C25: stride_matches leaves the cursor frame_idx unchanged: the frame it
\* inspects is the one the next retrieval returns, so in a pass the window
\* entry with logical index i holds source frame i and no frame is skipped.
PeekDoesNotConsume ==
    /\ [][stride_queries' # stride_queries => frame_idx' = frame_idx]_vars
    /\ [](/\ probes # <<>> => probes[1].idx = 0
          /\ \A k \in 1..Len(probes) : probes[k].idx = k - 1
          /\ \A i \in 1..Len(calls) : calls[i].indices = calls[i].frames)

PeekDoesNotConsumeWitness ==
    /\ stride_queries = 1
    /\ Len(probes) >= 4
    /\ Len(calls) >= 2
    /\ calls[1].frames[1] = 0
    /\ calls[2].frames[1] = 1

\* C28: at every analysis call the logical index of the first window entry
\* is the frame number passed to the engine minus 1.
WindowStartsOneBeforeFrameno ==
    \A i \in 1..Len(calls) : calls[i].indices[1] = calls[i].frameno - 1

\* the same for the calls made while decoding succeeds (full windows)
WindowStartsOneBeforeFramenoWhileDecoding ==
    \A i \in 1..Len(calls) :
        Len(calls[i].indices) = lookahead_distance + 2 =>
            calls[i].indices[1] = calls[i].frameno - 1

\* in the drain loop the window starts two frames before the frame number
DrainWindowStartsTwoBeforeFrameno ==
    \A i \in 1..Len(calls) :
        Len(calls[i].indices) < lookahead_distance + 2 =>
            calls[i].indices[1] = calls[i].frameno - 2

\* C29: after a receive_frame_init or receive_frame call has reported the end
\* of the stream the driver makes no further retrieval call in the pass.
NoRetrievalAfterEndOfStream ==
    /\ [](\A k \in 1..(Len(probes) - 1) : probes[k].ok)
    /\ [][(probes # <<>> /\ ~Last(probes).ok) => probes' = probes]_vars

NoRetrievalAfterEndOfStreamWitness ==
    /\ Done
    /\ FullStream
    /\ Len(probes) = num_frames + 1
    /\ ~Last(probes).ok
    /\ Len(calls) >= lookahead_distance + 2

\* ------------------------------------------------ a pass over the push adapter
\* C26: with the FFmpeg backend stride_matches answers true and changes no
\* decoder state: the driver never enters copy mode and never calls make_copy.
FfmpegNeverCopies ==
    /\ [](/\ ~frame_copy_needed
          /\ frame_copies = <<>>
          /\ ~copy_write_lost
          /\ \A i \in 1..Len(calls) :
                /\ WindowKinds(calls[i].window) = {"Ref"}
                /\ Len(calls[i].window) = Len(calls[i].frames))
    /\ [][stride_queries' # stride_queries => ff_vars' = ff_vars]_vars

FfmpegNeverCopiesWitness ==
    /\ pc = "done"
    /\ stride_queries = 1
    /\ Len(calls) >= 3
    /\ decoded = 4
    /\ frame_copies = <<>>

=============================================================================
